---------------------------- MODULE Spec2Model ----------------------------
(***************************************************************************)
(* Model of the chunk world of TPDestructionTerrain:                       *)
(*   AProceduralTerrainWorld (ProceduralTerrainWorld.cpp/.h) and the parts *)
(*   of UProceduralTerrain (ProceduralTerrain.cpp/.h) it calls.            *)
(*                                                                         *)
(* Floats are modelled by integers; every quantity the model uses is an    *)
(* integer for the parameter values chosen below.  Chunk components are    *)
(* heap objects named by an integer id (the pointer), so that the tasks,   *)
(* Chunks and PersistentChunks can alias the same object as in the code.   *)
(***************************************************************************)
EXTENDS Integers, Sequences, FiniteSets, TLC

(***************************************************************************)
(* Editable properties of the world actor (UPROPERTY(EditAnywhere)).  The  *)
(* model runs them at small values; the code's defaults are larger.        *)
(***************************************************************************)
ChunkSize == 2
TerrainScale == 4
HeightBias == 1
NoiseStrength == 1
StreamRadius == 1

(***************************************************************************)
(* Bounds of the model (not program constants).                            *)
(***************************************************************************)
MaxConstructions == 2
MaxStreamCalls == 2
MaxDigs == 1

(***************************************************************************)
(* Inputs.                                                                 *)
(***************************************************************************)
\* ChunksX x ChunksY x ChunksZ as set in the editor before OnConstruction.
Grids == { <<0, 1, 1>>, <<1, 1, 2>> }

\* Coordinates that may hold a persisted record when the program starts.
RecordCoords == { <<0, 0, 0>>, <<0, 0, 1>> }

\* Observer (pawn) positions, world units, Z = 0.
PlayerPositions == { <<3, 0, 0>>, <<4, 0, 0>>, <<5, 0, 0>> }

\* Dig requests: centre, radius, strength.
DigRequests ==
  { [pos |-> <<0, 0, 4>>, radius |-> 4, strength |-> -2],   \* on the face two chunks share
    [pos |-> <<0, 0, -2>>, radius |-> 2, strength |-> -2],  \* reaches chunk (0,0,0) only
    [pos |-> <<0, 0, 4>>, radius |-> 2, strength |-> 0],    \* less than one voxel, no strength
    [pos |-> <<0, 0, 4>>, radius |-> 0, strength |-> 0] }   \* a point, no strength

Range(s) == { s[i] : i \in 1..Len(s) }

Abs(a) == IF a < 0 THEN -a ELSE a

\* FMath::RoundToInt(num / den) for den > 0: floor(num/den + 1/2)
RoundDiv(num, den) == (2 * num + den) \div (2 * den)

\* FMath::CeilToInt(num / den) for den > 0
CeilDiv(num, den) == -((-num) \div den)

\* floor of the square root (FVector::Dist over integer offsets)
ISqrt(n) == CHOOSE r \in 0..n : r * r <= n /\ (r + 1) * (r + 1) > n

Cube(n) == n * n * n

\* The float NaN (0.0f / 0), kept apart from every number of the model
NaN == -1000

\* float +=: NaN is absorbing
FAdd(a, b) == IF a = NaN \/ b = NaN THEN NaN ELSE a + b

\* float <: false when either side is NaN
FLess(a, b) == a # NaN /\ b # NaN /\ a < b

(***************************************************************************)
(* UProceduralTerrain: one chunk component.                                *)
(***************************************************************************)
\* NewObject<UProceduralTerrain> + SetRelativeLocation + ChunkCoords
NewChunk(coords) ==
  [ ChunkCoords |-> coords,
    Location |-> << coords[1] * (ChunkSize - 1) * TerrainScale,
                    coords[2] * (ChunkSize - 1) * TerrainScale,
                    coords[3] * (ChunkSize - 1) * TerrainScale >>,
    CurrentSize |-> 0,
    CurrentScale |-> 1,
    CurrentIsoLevel |-> 0,
    Density |-> << >>,
    Mesh |-> << >>,
    Destroyed |-> FALSE ]

\* GetIndex lambda: x + y*Size + z*Size*Size, as a 1-based sequence index
GetIndex(x, y, z, size) == x + y * size + z * size * size + 1

\* TArray::SetNum: truncate, or extend with zeroed elements
SetNum(d, n) == [ i \in 1..n |-> IF i <= Len(d) THEN d[i] ELSE 0 ]

\* Stand-in for FMath::PerlinNoise3D(WorldPos * NoiseScale): deterministic, in [-1,1]
Noise3D(p) ==
  (((p[1] \div TerrainScale) + 2 * (p[2] \div TerrainScale)
     + (p[3] \div TerrainScale)) % 3) - 1

\* The value BuildDensityField writes at voxel (x,y,z)
DensityValue(origin, x, y, z, scale) ==
  (z - HeightBias)
  + Noise3D(<< origin[1] + x * scale, origin[2] + y * scale, origin[3] + z * scale >>)
    * NoiseStrength

\* The whole field BuildDensityField's loop produces for a chunk at origin
GeneratedDensity(origin, size, scale) ==
  [ i \in 1..Cube(size) |->
      DensityValue(origin, (i - 1) % size, ((i - 1) \div size) % size,
                   (i - 1) \div (size * size), scale) ]

\* edgeTable[cubeIndex] == 0: the standard table is zero for cases 0 and 255 only
EdgeTableIsZero(cubeIndex) == cubeIndex \in {0, 255}

\* CornerOffsets
CornerOffsets ==
  << <<0,0,0>>, <<1,0,0>>, <<1,1,0>>, <<0,1,0>>,
     <<0,0,1>>, <<1,0,1>>, <<1,1,1>>, <<0,1,1>> >>

Pow2(i) == CASE i = 0 -> 1 [] i = 1 -> 2 [] i = 2 -> 4 [] i = 3 -> 8
             [] i = 4 -> 16 [] i = 5 -> 32 [] i = 6 -> 64 [] i = 7 -> 128

\* Density[i] as the mesher reads it; the guard of RebuildMeshFromCurrentDensity
\* lets the mesher run only on buffers in which every index it forms is valid
DensityAt(c, i) == IF i \in 1..Len(c.Density) THEN c.Density[i] ELSE 0

RECURSIVE CubeIndexFrom(_, _, _, _, _)
\* cubeIndex |= (1 << i) iff val[i] < IsoLevel, for corners i..7
CubeIndexFrom(c, x, y, z, i) ==
  IF i > 7 THEN 0
  ELSE LET o == CornerOffsets[i + 1]
           v == DensityAt(c, GetIndex(x + o[1], y + o[2], z + o[3], c.CurrentSize))
       IN  (IF FLess(v, c.CurrentIsoLevel) THEN Pow2(i) ELSE 0)
           + CubeIndexFrom(c, x, y, z, i + 1)

\* A mesher that emits geometry for every cube, whatever its case
MarchCubesEveryCube(c) ==
  LET n == c.CurrentSize - 1
  IN  [ k \in 1..Cube(n) |->
          << k - 1, CubeIndexFrom(c, (k - 1) % n, ((k - 1) \div n) % n,
                                  (k - 1) \div (n * n), 0) >> ]

\* The cubes the mesher emits geometry for, in z,y,x order, each with its case
MarchCubes(c) ==
  LET n == c.CurrentSize - 1
      all == [ k \in 1..Cube(n) |->
                 LET x == (k - 1) % n
                     y == ((k - 1) \div n) % n
                     z == (k - 1) \div (n * n)
                 IN  << k - 1, CubeIndexFrom(c, x, y, z, 0) >> ]
      Emits(e) == ~EdgeTableIsZero(e[2])
  IN  SelectSeq(all, Emits)

\* A guard that lets every buffer through
MeshGuardNever(c) == FALSE

\* The guard of RebuildMeshFromCurrentDensity, lines 283-288
MeshGuard(c) == c.CurrentSize <= 1 \/ Len(c.Density) # Cube(c.CurrentSize)

\* FMath::Clamp
Clamp(v, lo, hi) == IF v < lo THEN lo ELSE IF v > hi THEN hi ELSE v

\* The indices of Density one call of RebuildMeshFromCurrentDensity reads:
\* SampleDensity over the six neighbours of every voxel, and the eight corners
\* of every cube
MeshReads(c) ==
  IF MeshGuard(c) THEN {}
  ELSE LET n == c.CurrentSize
           Sample(x, y, z) == GetIndex(Clamp(x, 0, n - 1), Clamp(y, 0, n - 1),
                                       Clamp(z, 0, n - 1), n)
       IN  UNION { { Sample(v[1] + 1, v[2], v[3]), Sample(v[1] - 1, v[2], v[3]),
                     Sample(v[1], v[2] + 1, v[3]), Sample(v[1], v[2] - 1, v[3]),
                     Sample(v[1], v[2], v[3] + 1), Sample(v[1], v[2], v[3] - 1) }
                   : v \in (0..(n - 1)) \X (0..(n - 1)) \X (0..(n - 1)) }
           \cup { GetIndex(v[1] + CornerOffsets[i][1], v[2] + CornerOffsets[i][2],
                           v[3] + CornerOffsets[i][3], n)
                  : v \in (0..(n - 2)) \X (0..(n - 2)) \X (0..(n - 2)), i \in 1..8 }

\* RebuildMeshFromCurrentDensity
RebuildMeshFromCurrentDensity(c) ==
  IF MeshGuard(c)
  THEN [c EXCEPT !.Mesh = << >>]
  ELSE [c EXCEPT !.Mesh = MarchCubes(c)]

\* BuildDensityField, lines 461-463: the fields and the resize
BuildDensityFieldBegin(c, size, scale) ==
  [c EXCEPT !.CurrentSize = size, !.CurrentScale = scale,
            !.Density = SetNum(c.Density, Cube(size))]

\* BuildDensityField, lines 465-484: the fill loop
BuildDensityFieldFill(c, size, scale) ==
  [c EXCEPT !.Density = GeneratedDensity(c.Location, size, scale)]

\* BuildDensityField as one call (owning context)
BuildDensityField(c, size, scale) ==
  BuildDensityFieldFill(BuildDensityFieldBegin(c, size, scale), size, scale)


(***************************************************************************)
(* Persistence backend: files maps a chunk coordinate (the chunk's name    *)
(* "Chunk_x_y_z") to the record stored under                               *)
(* <ProjectSavedDir>/TerrainChunks/TerrainChunks_<name>.json.              *)
(***************************************************************************)
\* TJsonWriter's text of a number (printf "%.17g"): a finite float reads back
\* as itself, a NaN is printed as the word nan, which is no JSON value
WriteDouble(v) ==
  IF v = NaN THEN [ token |-> "nan", value |-> 0 ] ELSE [ token |-> "number", value |-> v ]

\* FJsonValue::AsNumber of a number read from the text
AsNumber(t) == t.value

\* FJsonSerializer::Deserialize succeeds on the text of rec
JsonDeserialize(rec) == \A i \in 1..Len(rec.Density) : rec.Density[i].token = "number"

\* A record left by an earlier session in which the terrain had been dug
SavedRecord(coords) ==
  LET c == BuildDensityField(NewChunk(coords), ChunkSize, TerrainScale)
  IN  [ Size |-> ChunkSize, Scale |-> TerrainScale, IsoLevel |-> 0,
        Density |-> [ i \in 1..Len(c.Density) |-> WriteDouble(c.Density[i] - 3) ] ]

\* The same record cut short by one sample (a damaged or hand-edited file)
TruncatedRecord(coords) ==
  [ SavedRecord(coords) EXCEPT !.Density = SubSeq(@, 1, Len(@) - 1) ]

\* A record left by a session that ran with a chunk size one less than ChunkSize
SmallerRecord(coords) ==
  LET c == BuildDensityField(NewChunk(coords), ChunkSize - 1, TerrainScale)
  IN  [ Size |-> ChunkSize - 1, Scale |-> TerrainScale, IsoLevel |-> 0,
        Density |-> [ i \in 1..Len(c.Density) |-> WriteDouble(c.Density[i]) ] ]

\* A record left by a session in which the terrain had been filled
FilledRecord(coords) ==
  LET c == BuildDensityField(NewChunk(coords), ChunkSize, TerrainScale)
  IN  [ Size |-> ChunkSize, Scale |-> TerrainScale, IsoLevel |-> 0,
        Density |-> [ i \in 1..Len(c.Density) |-> WriteDouble(c.Density[i] + 3) ] ]

\* The records the backend may hold for a chunk when the program starts
Records(coords) ==
  { SavedRecord(coords), TruncatedRecord(coords), SmallerRecord(coords), FilledRecord(coords) }

\* A file name handed to LoadDensityFromJSON: the chunk it names, and whether
\* the caller already put ProjectSavedDir() in front of it
RelativeFile(coords) == [ coords |-> coords, savedDirs |-> 0 ]

FullPathFile(coords) == [ coords |-> coords, savedDirs |-> 1 ]

\* LoadDensityFromJSON's LoadPath = ProjectSavedDir() / FileName, and whether
\* FFileHelper::LoadFileToString finds a record there
LoadFileToString(fs, fileName) ==
  LET savedDirs == fileName.savedDirs + 1
  IN  savedDirs = 1 /\ fileName.coords \in DOMAIN fs

\* LoadDensityFromJSON
LoadDensityFromJSON(c, fs, fileName) ==
  IF ~LoadFileToString(fs, fileName) THEN c
  ELSE IF ~JsonDeserialize(fs[fileName.coords]) THEN c
  ELSE LET rec == fs[fileName.coords]
           c1 == [c EXCEPT !.CurrentSize = rec.Size, !.CurrentScale = rec.Scale,
                           !.CurrentIsoLevel = rec.IsoLevel]
           c2 == [c1 EXCEPT !.Density = [ i \in 1..Len(rec.Density) |-> AsNumber(rec.Density[i]) ]]
       IN  RebuildMeshFromCurrentDensity(c2)

\* SaveDensityToJSON: the backend after the call
SaveDensityToJSON(c, fs) ==
  IF Len(c.Density) = 0 THEN fs
  ELSE [ k \in DOMAIN fs \cup {c.ChunkCoords} |->
           IF k = c.ChunkCoords
           THEN [ Size |-> c.CurrentSize, Scale |-> c.CurrentScale,
                  IsoLevel |-> c.CurrentIsoLevel,
                  Density |-> [ i \in 1..Len(c.Density) |-> WriteDouble(c.Density[i]) ] ]
           ELSE fs[k] ]

(***************************************************************************)
(* State of the world actor and of the two execution contexts.             *)
(***************************************************************************)
VARIABLES
  heap,                  \* chunk components by id (pointer)
  nextId,                \* next id NewObject hands out
  Chunks,                \* TArray<UProceduralTerrain*> Chunks
  PersistentChunks,      \* TArray<UProceduralTerrain*> PersistentChunks
  bIsGenerating,
  CompletedChunks,
  LastPlayerChunkCenter,
  workerPending,         \* thread-pool tasks queued by Async(ThreadPool, ...)
  workerRunning,         \* thread-pool tasks inside BuildDensityField
  gamePending,           \* AsyncTask(GameThread, ...) tasks not yet run
  files,                 \* persistence backend
  phase,                 \* "editor" (before BeginPlay), "playing", "ended", "crashed"
  passes,                \* calls of GenerateAllChunks so far
  constructions,         \* calls of OnConstruction so far
  digs,                  \* calls of DigAt so far
  streamCalls,           \* calls of UpdateStreamedChunks so far
  playerLog              \* observer positions at the last two UpdateStreamedChunks calls

vars == << heap, nextId, Chunks, PersistentChunks, bIsGenerating, CompletedChunks,
           LastPlayerChunkCenter, workerPending, workerRunning, gamePending, files,
           phase, passes, constructions, digs, streamCalls, playerLog >>

\* Every generation task that has been scheduled and has not finished
Tasks == workerPending \cup { [chunk |-> t.chunk, pass |-> t.pass] : t \in workerRunning }
           \cup gamePending

\* Objects still referenced from the actor or from a task; the rest is collected
Referenced(chs, pers, wp, wr, gp) ==
  Range(chs) \cup Range(pers) \cup { t.chunk : t \in wp \cup wr \cup gp }

Collect(h, chs, pers, wp, wr, gp) ==
  [ i \in DOMAIN h \cap Referenced(chs, pers, wp, wr, gp) |-> h[i] ]

\* An owning-context access to chunk densities while a worker writes them:
\* the running tasks of the chunks read or written are marked
MarkRaced(wr, readSet, writeSet) ==
  { IF t.chunk \in writeSet THEN [t EXCEPT !.raced = "write"]
    ELSE IF t.chunk \in readSet /\ t.raced = "no" THEN [t EXCEPT !.raced = "read"]
    ELSE t : t \in wr }

Init ==
  /\ heap = << >>
  /\ nextId = 1
  /\ Chunks = << >>
  /\ PersistentChunks = << >>
  /\ bIsGenerating = FALSE
  /\ CompletedChunks = 0
  /\ LastPlayerChunkCenter = <<0, 0, 0>>
  /\ workerPending = {}
  /\ workerRunning = {}
  /\ gamePending = {}
  /\ \E S \in SUBSET RecordCoords : files = [ k \in S |-> SavedRecord(k) ]
  /\ phase = "editor"
  /\ passes = 0
  /\ constructions = 0
  /\ digs = 0
  /\ streamCalls = 0
  /\ playerLog = << >>


(***************************************************************************)
(* AProceduralTerrainWorld::GenerateAllChunks and its two task bodies.     *)
(***************************************************************************)
\* The Async(ThreadPool) tasks one call schedules, one per chunk of Chunks;
\* pass identifies the call (each lambda captures the call's StartTime)
GenerateAllChunks(chs, pass) ==
  { [chunk |-> chs[k], pass |-> pass] : k \in 1..Len(chs) }

\* Thread pool: a task enters BuildDensityField (sets the fields, resizes)
WorkerBegin(t) ==
  /\ phase # "crashed"
  /\ t \in workerPending
  /\ workerPending' = workerPending \ {t}
  /\ workerRunning' = workerRunning \cup { [chunk |-> t.chunk, pass |-> t.pass, raced |-> "no"] }
  /\ heap' = [heap EXCEPT ![t.chunk] = BuildDensityFieldBegin(@, ChunkSize, TerrainScale)]
  /\ UNCHANGED << nextId, Chunks, PersistentChunks, bIsGenerating, CompletedChunks,
                  LastPlayerChunkCenter, gamePending, files, phase, passes,
                  constructions, digs, streamCalls, playerLog >>

\* Thread pool: the fill loop ends and the task posts its game-thread task.
\* If the owning context wrote the same buffer meanwhile, either side's
\* values may be the ones that remain (ownerWins).
WorkerEnd(t, ownerWins) ==
  /\ phase # "crashed"
  /\ t \in workerRunning
  /\ ownerWins => t.raced = "write"
  /\ workerRunning' = workerRunning \ {t}
  /\ gamePending' = gamePending \cup { [chunk |-> t.chunk, pass |-> t.pass] }
  /\ heap' = IF ownerWins THEN heap
             ELSE [heap EXCEPT ![t.chunk] = BuildDensityFieldFill(@, ChunkSize, TerrainScale)]
  /\ UNCHANGED << nextId, Chunks, PersistentChunks, bIsGenerating, CompletedChunks,
                  LastPlayerChunkCenter, workerPending, files, phase, passes,
                  constructions, digs, streamCalls, playerLog >>

\* CompletedChunks >= Chunks.Num()
AllChunksCompleted(completed, chs) == completed >= Len(chs)

\* Game thread: the AsyncTask(GameThread) lambda of lines 118-131
GameTask(t) ==
  /\ phase # "crashed"
  /\ t \in gamePending
  /\ gamePending' = gamePending \ {t}
  /\ CompletedChunks' = CompletedChunks + 1
  /\ bIsGenerating' = IF AllChunksCompleted(CompletedChunks', Chunks) THEN FALSE
                      ELSE bIsGenerating
  /\ workerRunning' = MarkRaced(workerRunning, {t.chunk}, {})
  /\ \E h1 \in { [heap EXCEPT ![t.chunk] = RebuildMeshFromCurrentDensity(@)] } :
       heap' = Collect(h1, Chunks, PersistentChunks, workerPending, workerRunning',
                       gamePending')
  /\ UNCHANGED << nextId, Chunks, PersistentChunks, LastPlayerChunkCenter,
                  workerPending, files, phase, passes, constructions, digs,
                  streamCalls, playerLog >>

(***************************************************************************)
(* AProceduralTerrainWorld::OnConstruction (buildGrid).                    *)
(***************************************************************************)
\* The grid coordinates in the order of the z, y, x loops
GridCoordSeq(grid) ==
  [ k \in 1..(grid[1] * grid[2] * grid[3]) |->
      << (k - 1) % grid[1], ((k - 1) \div grid[1]) % grid[2],
         (k - 1) \div (grid[1] * grid[2]) >> ]

\* FPaths::FileExists of the chunk's record
FileExists(fs, coords) == coords \in DOMAIN fs

\* DestroyComponent on every chunk of chs
DestroyAll(h, chs) ==
  [ i \in DOMAIN h |-> IF i \in Range(chs) THEN [h[i] EXCEPT !.Destroyed = TRUE] ELSE h[i] ]

\* The guard of lines 29-33
RejectConstruction(generating) == generating

\* Lines 74-85 for one new chunk: load and remesh when its record exists
LoadExisting(c, fs) ==
  IF FileExists(fs, c.ChunkCoords)
  THEN RebuildMeshFromCurrentDensity(LoadDensityFromJSON(c, fs, RelativeFile(c.ChunkCoords)))
  ELSE c

OnConstruction(grid) ==
  /\ phase \notin {"ended", "crashed"}
  /\ constructions' = constructions + 1
  /\ IF RejectConstruction(bIsGenerating)
     THEN UNCHANGED << heap, nextId, Chunks, PersistentChunks, bIsGenerating,
                       CompletedChunks, workerPending, passes >>
     ELSE \E cs \in { GridCoordSeq(grid) } :
          \E old \in { DestroyAll(heap, Chunks) } :
            LET n == Len(cs)
                ids == [ k \in 1..n |-> nextId + k - 1 ]
                bLoadedExisting == \E k \in 1..n : FileExists(files, cs[k])
                scheduled == IF bLoadedExisting THEN {}
                             ELSE GenerateAllChunks(ids, passes + 1)
            IN  /\ Chunks' = ids
                /\ nextId' = nextId + n
                /\ bIsGenerating' = ~bLoadedExisting
                /\ CompletedChunks' = 0
                /\ workerPending' = workerPending \cup scheduled
                /\ passes' = IF bLoadedExisting THEN passes ELSE passes + 1
                /\ \E h1 \in { [ i \in DOMAIN old \cup Range(ids) |->
                                   IF i >= nextId
                                   THEN LoadExisting(NewChunk(cs[i - nextId + 1]), files)
                                   ELSE old[i] ] } :
                     heap' = Collect(h1, Chunks', PersistentChunks, workerPending',
                                     workerRunning, gamePending)
                /\ UNCHANGED PersistentChunks
  /\ UNCHANGED << LastPlayerChunkCenter, workerRunning, gamePending, files, phase,
                  digs, streamCalls, playerLog >>

(***************************************************************************)
(* AProceduralTerrainWorld::BeginPlay (startup) and EndPlay (teardown).    *)
(***************************************************************************)
\* Index of the first chunk of chs without a record, Len(chs)+1 if none:
\* where the loop of lines 210-224 calls GenerateAllChunks and breaks
FirstWithoutFile(h, chs, fs) ==
  LET missing == { k \in 1..Len(chs) : ~FileExists(fs, h[chs[k]].ChunkCoords) }
  IN  IF missing = {} THEN Len(chs) + 1
      ELSE CHOOSE k \in missing : \A j \in missing : k <= j

BeginPlay ==
  /\ phase = "editor"
  /\ phase' = "playing"
  /\ LET stop == FirstWithoutFile(heap, Chunks, files)
         loaded == { Chunks[k] : k \in 1..(stop - 1) }
         generate == stop <= Len(Chunks)
     IN  /\ heap' = [ i \in DOMAIN heap |->
                        IF i \in loaded
                        THEN LoadDensityFromJSON(heap[i], files, RelativeFile(heap[i].ChunkCoords))
                        ELSE heap[i] ]
         /\ workerRunning' = MarkRaced(workerRunning, {}, loaded)
         /\ workerPending' = IF generate
                             THEN workerPending \cup GenerateAllChunks(Chunks, passes + 1)
                             ELSE workerPending
         /\ passes' = IF generate THEN passes + 1 ELSE passes
  /\ PersistentChunks' = Chunks
  /\ UNCHANGED << nextId, Chunks, bIsGenerating, CompletedChunks, LastPlayerChunkCenter,
                  gamePending, files, constructions, digs, streamCalls, playerLog >>

RECURSIVE SaveAll(_, _, _, _)
\* The loop of lines 239-243 from index k on
SaveAll(h, pers, fs, k) ==
  IF k > Len(pers) THEN fs
  ELSE SaveAll(h, pers, SaveDensityToJSON(h[pers[k]], fs), k + 1)

EndPlay ==
  /\ phase = "playing"
  /\ phase' = "ended"
  /\ files' = SaveAll(heap, PersistentChunks, files, 1)
  /\ workerRunning' = MarkRaced(workerRunning, Range(PersistentChunks), {})
  /\ UNCHANGED << heap, nextId, Chunks, PersistentChunks, bIsGenerating, CompletedChunks,
                  LastPlayerChunkCenter, workerPending, gamePending, passes,
                  constructions, digs, streamCalls, playerLog >>


(***************************************************************************)
(* AProceduralTerrainWorld::UpdateStreamedChunks (updateStreaming).        *)
(***************************************************************************)
\* ChunkWorldSize.X = (ChunkSize - 1) * TerrainScale
ChunkWorldSize == (ChunkSize - 1) * TerrainScale

\* PlayerChunkCoords: FloorToInt(pos / ChunkWorldSize), Z pinned to 0
PlayerChunkCoords(pos) == << pos[1] \div ChunkWorldSize, pos[2] \div ChunkWorldSize, 0 >>

\* PlayerChunkCenter = FVector(PlayerChunkCoords) * ChunkWorldSize
PlayerChunkCenter(pcc) ==
  << pcc[1] * ChunkWorldSize, pcc[2] * ChunkWorldSize, pcc[3] * ChunkWorldSize >>

DistSquared(a, b) ==
  (a[1] - b[1]) * (a[1] - b[1]) + (a[2] - b[2]) * (a[2] - b[2])
  + (a[3] - b[3]) * (a[3] - b[3])

\* The test of line 360 never skipping
SkipUpdateNever(center, last) == FALSE

\* Line 360: Dist(PlayerChunkCenter, LastPlayerChunkCenter) < ChunkWorldSize.X * 0.5
SkipUpdate(center, last) ==
  4 * DistSquared(center, last) < ChunkWorldSize * ChunkWorldSize

\* The window loops one column short
DesiredChunksShort(pcc) ==
  LET side == 2 * StreamRadius + 1
  IN  [ k \in 1..(side * (side - 1)) |->
          << pcc[1] - StreamRadius + ((k - 1) \div side),
             pcc[2] - StreamRadius + ((k - 1) % side), 0 >> ]

\* Lines 367-370: the desired coordinates in the order they are added
DesiredChunks(pcc) ==
  LET side == 2 * StreamRadius + 1
  IN  [ k \in 1..(side * side) |->
          << pcc[1] - StreamRadius + ((k - 1) \div side),
             pcc[2] - StreamRadius + ((k - 1) % side), 0 >> ]

\* The eviction loop without its test of PersistentChunks
EvictChunkIgnoringPersistent(h, pers, desired, id) ==
  h[id].ChunkCoords \notin Range(desired)

\* Lines 378-386: whether the eviction loop destroys and removes chunk id
EvictChunk(h, pers, desired, id) ==
  /\ h[id].ChunkCoords \notin Range(desired)
  /\ id \notin Range(pers)

\* bExists answering "no" for every coordinate
ChunkExistsNever(h, chs, coords) == FALSE

\* Lines 393-401: bExists
ChunkExists(h, chs, coords) ==
  \E k \in 1..Len(chs) : h[chs[k]].ChunkCoords = coords

\* Lines 405-427: the streamed chunk as it is when added to Chunks
StreamedChunk(coords, fs) ==
  IF FileExists(fs, coords)
  THEN RebuildMeshFromCurrentDensity(
         LoadDensityFromJSON(NewChunk(coords), fs, FullPathFile(coords)))
  ELSE RebuildMeshFromCurrentDensity(
         BuildDensityField(NewChunk(coords), ChunkSize, TerrainScale))

\* Lines 373-388: Chunks after the eviction loop (RemoveAt keeps the order)
KeptChunks(h, chs, pers, desired) ==
  LET Kept(id) == ~EvictChunk(h, pers, desired, id)
  IN  SelectSeq(chs, Kept)

\* The loop of lines 391-431: the desired coordinates that get a new chunk, in
\* order (the coordinates of a TSet are distinct, so a chunk added by the loop
\* never makes a later coordinate exist)
MissingChunks(h, chs, desired) ==
  LET Missing(coords) == ~ChunkExists(h, chs, coords)
  IN  SelectSeq(desired, Missing)

UpdateStreamedChunks(pos) ==
  /\ phase = "playing"
  /\ streamCalls' = streamCalls + 1
  /\ playerLog' = IF playerLog = << >> THEN << pos >>
                  ELSE << playerLog[Len(playerLog)], pos >>
  /\ LET pcc == PlayerChunkCoords(pos)
         center == PlayerChunkCenter(pcc)
     IN  IF SkipUpdate(center, LastPlayerChunkCenter)
         THEN UNCHANGED << heap, nextId, Chunks, LastPlayerChunkCenter >>
         ELSE \E desired \in { DesiredChunks(pcc) } :
              \E kept \in { KeptChunks(heap, Chunks, PersistentChunks, desired) } :
              \E missing \in { MissingChunks(heap, kept, desired) } :
                LET evicted == Range(Chunks) \ Range(kept)
                    added == [ k \in 1..Len(missing) |-> nextId + k - 1 ]
                IN  /\ LastPlayerChunkCenter' = center
                    /\ Chunks' = kept \o added
                    /\ nextId' = nextId + Len(missing)
                    /\ \E h2 \in { [ i \in DOMAIN heap \cup Range(added) |->
                                     IF i >= nextId
                                     THEN StreamedChunk(missing[i - nextId + 1], files)
                                     ELSE IF i \in evicted
                                     THEN [heap[i] EXCEPT !.Destroyed = TRUE]
                                     ELSE heap[i] ] } :
                         heap' = Collect(h2, Chunks', PersistentChunks, workerPending,
                                         workerRunning, gamePending)
  /\ UNCHANGED << PersistentChunks, bIsGenerating, CompletedChunks, workerPending,
                  workerRunning, gamePending, files, phase, passes, constructions, digs >>

(***************************************************************************)
(* AProceduralTerrainWorld::DigAt.                                         *)
(***************************************************************************)
\* Squared distance from p to the interval [lo, hi] on one axis
AxisDistSquared(p, lo, hi) ==
  IF p < lo THEN (lo - p) * (lo - p) ELSE IF p > hi THEN (p - hi) * (p - hi) ELSE 0

\* The box test asking only whether the sphere's centre is inside the box
CentreInChunk(c, pos, radius) ==
  LET ext == (ChunkSize - 1) * TerrainScale
  IN  \A k \in 1..3 : c.Location[k] <= pos[k] /\ pos[k] <= c.Location[k] + ext

\* FMath::SphereAABBIntersection(DigSphere, ChunkBox), ChunkBox of lines 266-268
SphereIntersectsChunk(c, pos, radius) ==
  LET ext == (ChunkSize - 1) * TerrainScale
  IN  AxisDistSquared(pos[1], c.Location[1], c.Location[1] + ext)
      + AxisDistSquared(pos[2], c.Location[2], c.Location[2] + ext)
      + AxisDistSquared(pos[3], c.Location[3], c.Location[3] + ext)
      <= radius * radius

\* Line 263 and line 270: the chunks the loop does not skip
DigAffects(c, pos, radius) ==
  Len(c.Density) # 0 /\ SphereIntersectsChunk(c, pos, radius)

\* Strength * (1.0f - (Dist / RadiusVoxels)), line 301, for Dist <= RadiusVoxels:
\* with RadiusVoxels = 0 the quotient is 0/0
Falloff(strength, dist, rv) ==
  IF rv = 0 THEN NaN ELSE (strength * (rv - dist)) \div rv

\* XCenter, YCenter, ZCenter of lines 279-281
DigCenter(c, pos) ==
  << RoundDiv(pos[1] - c.Location[1], TerrainScale),
     RoundDiv(pos[2] - c.Location[2], TerrainScale),
     RoundDiv(pos[3] - c.Location[3], TerrainScale) >>

\* RadiusVoxels of line 282
RadiusVoxels(radius) == CeilDiv(radius, TerrainScale)

\* Lines 289-299: the voxels the loop modifies: inside the box of RadiusVoxels
\* around the centre, inside the world's ChunkSize, at most RadiusVoxels away
DigVoxels(c, pos, radius) ==
  LET ctr == DigCenter(c, pos)
      rv == RadiusVoxels(radius)
  IN  { v \in (0..(ChunkSize - 1)) \X (0..(ChunkSize - 1)) \X (0..(ChunkSize - 1)) :
          /\ Abs(v[1] - ctr[1]) <= rv /\ Abs(v[2] - ctr[2]) <= rv
          /\ Abs(v[3] - ctr[3]) <= rv
          /\ DistSquared(v, ctr) <= rv * rv }

\* Idx of line 300: GetIndex with the world's ChunkSize
DigIndex(v) == GetIndex(v[1], v[2], v[3], ChunkSize)

\* Some Density[Idx] of line 301 lies outside the chunk's buffer
DigOutOfBounds(c, pos, radius) ==
  \E v \in DigVoxels(c, pos, radius) : DigIndex(v) > Len(c.Density)

\* Lines 274-304: the density after the voxel loop (the writes inside the
\* buffer).  Dist is exact when the squared distance is a square.
DigDensity(c, pos, radius, strength) ==
  LET ctr == DigCenter(c, pos)
      rv == RadiusVoxels(radius)
      vs == DigVoxels(c, pos, radius)
  IN  [ i \in 1..Len(c.Density) |->
          IF \E v \in vs : DigIndex(v) = i
          THEN LET v == CHOOSE w \in vs : DigIndex(w) = i
               IN  FAdd(c.Density[i], Falloff(strength, ISqrt(DistSquared(v, ctr)), rv))
          ELSE c.Density[i] ]

\* Lines 261-309 for one chunk
DigChunk(c, pos, radius, strength) ==
  IF DigAffects(c, pos, radius)
  THEN RebuildMeshFromCurrentDensity([c EXCEPT !.Density = DigDensity(c, pos, radius, strength)])
  ELSE c

\* A write past the end of a chunk's buffer is undefined: the range check of
\* TArray stops the program (crashed), or the write lands outside the buffer
DigAt(req, crashed) ==
  /\ phase \notin {"ended", "crashed"}
  /\ digs' = digs + 1
  /\ LET affected == { id \in Range(Chunks) : DigAffects(heap[id], req.pos, req.radius) }
         outOfBounds == \E id \in affected : DigOutOfBounds(heap[id], req.pos, req.radius)
     IN  /\ crashed => outOfBounds
         /\ phase' = IF crashed THEN "crashed" ELSE phase
         /\ heap' = [ i \in DOMAIN heap |->
                        IF i \in Range(Chunks)
                        THEN DigChunk(heap[i], req.pos, req.radius, req.strength)
                        ELSE heap[i] ]
         /\ workerRunning' = MarkRaced(workerRunning, Range(Chunks), affected)
  /\ UNCHANGED << nextId, Chunks, PersistentChunks, bIsGenerating, CompletedChunks,
                  LastPlayerChunkCenter, workerPending, gamePending, files,
                  passes, constructions, streamCalls, playerLog >>

(***************************************************************************)
(* The program: the owning context's handlers and the thread pool's steps. *)
(***************************************************************************)
Construct == constructions < MaxConstructions /\ \E grid \in Grids : OnConstruction(grid)

Stream == streamCalls < MaxStreamCalls /\ \E pos \in PlayerPositions : UpdateStreamedChunks(pos)

Dig == digs < MaxDigs /\ \E req \in DigRequests : \E crashed \in BOOLEAN : DigAt(req, crashed)

WorkerStart == \E t \in workerPending : WorkerBegin(t)

WorkerFinish == \E t \in workerRunning : \E ownerWins \in BOOLEAN : WorkerEnd(t, ownerWins)

GameThreadTask == \E t \in gamePending : GameTask(t)

\* The world without digging
Next ==
  \/ Construct
  \/ BeginPlay
  \/ EndPlay
  \/ Stream
  \/ WorkerStart
  \/ WorkerFinish
  \/ GameThreadTask

Spec == Init /\ [][Next]_vars

\* The thread pool runs every queued task and the game thread drains its
\* task queue every frame
FairSpec ==
  Spec /\ WF_vars(WorkerStart) /\ WF_vars(WorkerFinish) /\ WF_vars(GameThreadTask)

\* The world with digging and without streaming
DigNext ==
  \/ Construct
  \/ BeginPlay
  \/ EndPlay
  \/ Dig
  \/ WorkerStart
  \/ WorkerFinish
  \/ GameThreadTask

DigSpec == Init /\ [][DigNext]_vars

\* The world with digging, started on a backend that holds any record for
\* chunk (0,0,0)
RecordInit ==
  /\ heap = << >>
  /\ nextId = 1
  /\ Chunks = << >>
  /\ PersistentChunks = << >>
  /\ bIsGenerating = FALSE
  /\ CompletedChunks = 0
  /\ LastPlayerChunkCenter = <<0, 0, 0>>
  /\ workerPending = {}
  /\ workerRunning = {}
  /\ gamePending = {}
  /\ \E r \in Records(<<0, 0, 0>>) : files = [ k \in { <<0, 0, 0>> } |-> r ]
  /\ phase = "editor"
  /\ passes = 0
  /\ constructions = 0
  /\ digs = 0
  /\ streamCalls = 0
  /\ playerLog = << >>

RecordSpec == RecordInit /\ [][DigNext]_vars

-----------------------------------------------------------------------------
\* Generation passes

\* The live chunks of the world
LiveChunks == { id \in Range(Chunks) : ~heap[id].Destroyed }

\* BeginPlay asks for a full-grid generation when some chunk has no record
BeginPlayRequestsGeneration == FirstWithoutFile(heap, Chunks, files) <= Len(Chunks)

\* C1: at most one full-grid generation pass is active at any time: all the
\* tasks in flight belong to one GenerateAllChunks call, and no chunk has two
\* generation tasks pending.
C1_SinglePass ==
  \A t, u \in Tasks :
    /\ t.pass = u.pass
    /\ t.chunk = u.chunk => t = u

\* C2: a generation request made while the world is Generating is a no-op: it
\* leaves the live chunks, the completion counter, the flag and the tasks in
\* flight unchanged, and a generation pass starts only from Idle.
C2_RequestRejectedWhileGenerating ==
  [][ /\ (bIsGenerating /\ (Construct \/ (BeginPlay /\ BeginPlayRequestsGeneration)))
         => /\ LiveChunks' = LiveChunks
            /\ UNCHANGED << Chunks, CompletedChunks, bIsGenerating,
                            workerPending, workerRunning, gamePending >>
      /\ passes' # passes => ~bIsGenerating ]_vars

\* C3: with every scheduled task eventually run to completion, a world that
\* is Generating eventually returns to Idle.
C3_EventuallyIdle == bIsGenerating ~> ~bIsGenerating

\* C4: updateStreaming creates or destroys no chunk while a full-grid
\* generation task is pending.
C4_StreamingWaitsForGeneration ==
  [][ (Stream /\ Tasks # {}) => (Chunks' = Chunks /\ LiveChunks' = LiveChunks) ]_vars

\* C5: a worker task writing a chunk's density never overlaps another access
\* to the same density: none by the owning context (digAt, rebuildMesh, load,
\* serialize) and none by a second worker task.
C5_NoConcurrentDensityAccess ==
  \A t \in workerRunning :
    /\ t.raced = "no"
    /\ \A u \in workerRunning : u.chunk = t.chunk => u = t

\* C6: once buildGrid and startup have run and the world is Idle with no task
\* pending, every chunk of the grid has a density of chunkSize^3 samples: the
\* record's when a record exists for its coordinate, the generated one
\* otherwise.
C6_GridLoadedOrGenerated ==
  ( /\ phase = "playing"
    /\ Len(Chunks) > 0
    /\ PersistentChunks = Chunks
    /\ ~bIsGenerating
    /\ Tasks = {}
    /\ streamCalls = 0 )
  => \A id \in Range(Chunks) :
       /\ Len(heap[id].Density) = Cube(ChunkSize)
       /\ heap[id].Density =
            IF FileExists(files, heap[id].ChunkCoords)
              THEN [ i \in 1..Len(files[heap[id].ChunkCoords].Density) |->
                       AsNumber(files[heap[id].ChunkCoords].Density[i]) ]
              ELSE GeneratedDensity(heap[id].Location, ChunkSize, TerrainScale)

-----------------------------------------------------------------------------
\* Streaming

\* The coordinates of the live chunks
LiveCoords == { heap[id].ChunkCoords : id \in LiveChunks }

\* The (2*StreamRadius+1)-sided square of coordinates centred on (cx, cy, 0)
Window(cx, cy) ==
  { << cx + dx, cy + dy, 0 >> : dx \in (-StreamRadius)..StreamRadius,
                                dy \in (-StreamRadius)..StreamRadius }

\* The update at pos goes past the check of line 360
NotSkipped(pos) ==
  ~SkipUpdate(PlayerChunkCenter(PlayerChunkCoords(pos)), LastPlayerChunkCenter)

\* C7: no two chunks of the live collection have the same ChunkCoords.
C7_UniqueCoords ==
  \A i, j \in 1..Len(Chunks) :
    heap[Chunks[i]].ChunkCoords = heap[Chunks[j]].ChunkCoords => i = j

\* An update has added streamed chunks next to grid chunks it found at desired
\* coordinates
C7_Witness ==
  /\ streamCalls > 0
  /\ \E id \in LiveChunks \cap Range(PersistentChunks) :
       heap[id].ChunkCoords \in Window(1, 0)
  /\ \E id \in LiveChunks \ Range(PersistentChunks) :
       heap[id].ChunkCoords \in Window(1, 0)
  /\ Window(1, 0) \subseteq LiveCoords

\* C8: streaming never evicts a persistent chunk: a chunk that is persistent
\* and live before UpdateStreamedChunks is live and persistent after it.
C8_PersistentNeverEvicted ==
  [][ Stream => /\ PersistentChunks' = PersistentChunks
                /\ \A id \in Range(PersistentChunks) \cap LiveChunks :
                     id \in Range(Chunks') /\ ~heap'[id].Destroyed ]_vars

\* After an update that moved the window, a persistent chunk outside every
\* window is live
C8_Witness ==
  /\ streamCalls > 0
  /\ LastPlayerChunkCenter # << 0, 0, 0 >>
  /\ \E id \in Range(PersistentChunks) \cap LiveChunks :
       heap[id].ChunkCoords[3] # 0

\* C9 as written: a second UpdateStreamedChunks with the observer less than
\* half a chunk width from where it was at the first creates and destroys no
\* chunk.
C9_HysteresisByDistance ==
  [][ \A pos \in PlayerPositions :
        ( /\ UpdateStreamedChunks(pos)
          /\ playerLog # << >>
          /\ 4 * DistSquared(pos, playerLog[Len(playerLog)])
               < ChunkWorldSize * ChunkWorldSize )
        => (Chunks' = Chunks /\ LiveChunks' = LiveChunks) ]_vars

\* C9: a second UpdateStreamedChunks with the observer in the chunk
\* coordinate it was in at the first creates and destroys no chunk.
C9_HysteresisByChunk ==
  [][ \A pos \in PlayerPositions :
        ( /\ UpdateStreamedChunks(pos)
          /\ playerLog # << >>
          /\ PlayerChunkCoords(pos) = PlayerChunkCoords(playerLog[Len(playerLog)]) )
        => (Chunks' = Chunks /\ LiveChunks' = LiveChunks) ]_vars

\* Two updates with the observer at two positions of chunk (1, 0), the grid
\* rebuilt before the second
C9_Witness ==
  /\ Len(playerLog) = 2
  /\ playerLog[1] # playerLog[2]
  /\ PlayerChunkCoords(playerLog[1]) = << 1, 0, 0 >>
  /\ PlayerChunkCoords(playerLog[2]) = << 1, 0, 0 >>
  /\ Len(Chunks) > 0
  /\ ~(Window(1, 0) \subseteq LiveCoords)

\* C10: after an UpdateStreamedChunks that is not skipped, every coordinate of
\* the window centred on the observer's chunk has a live chunk and every live
\* chunk outside the window is persistent.
C10_WindowAfterUpdate ==
  [][ \A pos \in PlayerPositions :
        (UpdateStreamedChunks(pos) /\ NotSkipped(pos))
        => LET w == Window(pos[1] \div ChunkWorldSize, pos[2] \div ChunkWorldSize)
           IN  /\ \A coords \in w :
                    \E id \in Range(Chunks') :
                      heap'[id].ChunkCoords = coords /\ ~heap'[id].Destroyed
               /\ \A id \in Range(Chunks') :
                    heap'[id].ChunkCoords \notin w => id \in Range(PersistentChunks') ]_vars

\* The window has moved from chunk (1, 0) back to chunk (0, 0): column 2 is
\* evicted, column -1 created, the persistent chunk above the plane kept
C10_Witness ==
  /\ Len(playerLog) = 2
  /\ PlayerChunkCoords(playerLog[1]) = << 1, 0, 0 >>
  /\ PlayerChunkCoords(playerLog[2]) = << 0, 0, 0 >>
  /\ LastPlayerChunkCenter = << 0, 0, 0 >>
  /\ Window(0, 0) \subseteq LiveCoords
  /\ \A coords \in LiveCoords : coords[1] # 2
  /\ \E id \in LiveChunks \cap Range(PersistentChunks) : heap[id].ChunkCoords[3] = 1

\* C11: every chunk UpdateStreamedChunks inserts into Chunks has, when it is
\* inserted, a populated density of CurrentSize^3 samples (loaded from its
\* record, or generated) and the mesh rebuilt from that density.
C11_StreamedChunkPopulated ==
  [][ Stream => \A id \in Range(Chunks') \ Range(Chunks) :
                  /\ Len(heap'[id].Density) > 0
                  /\ heap'[id].CurrentSize > 1
                  /\ Len(heap'[id].Density) = Cube(heap'[id].CurrentSize)
                  /\ heap'[id].Mesh = MarchCubes(heap'[id]) ]_vars

-----------------------------------------------------------------------------
\* Digging

\* The world bounds of chunk c meet the sphere: some point of the box is
\* within radius of pos
BoundsMeetSphere(c, pos, radius) ==
  LET ext == (ChunkSize - 1) * TerrainScale
  IN  \E p \in (c.Location[1]..(c.Location[1] + ext)) \X (c.Location[2]..(c.Location[2] + ext))
                 \X (c.Location[3]..(c.Location[3] + ext)) :
        DistSquared(p, pos) <= radius * radius

\* new is old + strength * (1 - dist / rv) for the voxel at squared distance d2
\* of the dig centre, old when the voxel is further than rv; the sum is NaN
\* when old is, or when rv = 0
IsFalloffOf(new, old, strength, d2, rv) ==
  IF d2 > rv * rv THEN new = old
  ELSE IF rv = 0 \/ old = NaN THEN new = NaN
  ELSE \E dist \in 0..rv : dist * dist = d2 /\ new * rv = old * rv + strength * (rv - dist)

\* C12: DigAt affects exactly the chunks whose bounds meet the dig sphere: each
\* of them gets the falloff update around the dig centre and the mesh of its
\* new density, every other chunk keeps its density and its mesh.
C12_DigAffectsIntersecting ==
  [][ \A req \in DigRequests :
        (\E crashed \in BOOLEAN : DigAt(req, crashed))
        => \A id \in Range(Chunks) :
             LET c == heap[id]
                 d == heap'[id]
                 ctr == << RoundDiv(req.pos[1] - c.Location[1], c.CurrentScale),
                           RoundDiv(req.pos[2] - c.Location[2], c.CurrentScale),
                           RoundDiv(req.pos[3] - c.Location[3], c.CurrentScale) >>
                 rv == CeilDiv(req.radius, c.CurrentScale)
             IN  IF BoundsMeetSphere(c, req.pos, req.radius)
                 THEN /\ Len(d.Density) = Len(c.Density)
                      /\ \A x, y, z \in 0..(c.CurrentSize - 1) :
                           LET i == x + y * c.CurrentSize + z * c.CurrentSize * c.CurrentSize + 1
                           IN  i <= Len(c.Density) =>
                                 IsFalloffOf(d.Density[i], c.Density[i], req.strength,
                                             DistSquared(<<x, y, z>>, ctr), rv)
                      /\ d.Mesh = RebuildMeshFromCurrentDensity(d).Mesh
                 ELSE d = c ]_vars

\* A dig has lowered one sample of chunk (0,0,0) and remeshed it while chunk
\* (0,0,1), out of reach, holds its generated density
C12_Witness ==
  /\ digs > 0
  /\ \E a, b \in LiveChunks :
       /\ heap[a].ChunkCoords = << 0, 0, 0 >>
       /\ heap[b].ChunkCoords = << 0, 0, 1 >>
       /\ heap[b].Density = GeneratedDensity(heap[b].Location, ChunkSize, TerrainScale)
       /\ heap[a].Density =
            [ GeneratedDensity(heap[a].Location, ChunkSize, TerrainScale) EXCEPT ![1] = @ - 2 ]
       /\ heap[a].Mesh = MarchCubes(heap[a])

\* C16: a DigAt with Strength = 0 changes no sample of any chunk, whatever the
\* centre and the radius, and leaves every chunk with the mesh of that density.
C16_ZeroStrengthNoOp ==
  [][ \A req \in DigRequests :
        (req.strength = 0 /\ \E crashed \in BOOLEAN : DigAt(req, crashed))
        => \A id \in Range(Chunks) :
             /\ heap'[id].Density = heap[id].Density
             /\ heap'[id].Mesh = RebuildMeshFromCurrentDensity(heap[id]).Mesh ]_vars

\* C19: every index of Density a DigAt writes lies inside the buffer of the
\* chunk it writes to, whatever record the chunk was loaded from.
C19_DigWritesInsideBuffer ==
  [][ \A req \in DigRequests :
        (\E crashed \in BOOLEAN : DigAt(req, crashed))
        => \A id \in Range(Chunks) :
             DigAffects(heap[id], req.pos, req.radius)
             => \A v \in DigVoxels(heap[id], req.pos, req.radius) :
                  DigIndex(v) \in 1..Len(heap[id].Density) ]_vars

-----------------------------------------------------------------------------
\* Records

\* C13: a record whose density length is not Size^3 is not loaded: the chunk
\* OnConstruction creates for its coordinate keeps the size, scale, iso level
\* and density it had before the load.
C13_MismatchedRecordRejected ==
  [][ Construct => \A id \in Range(Chunks') \ Range(Chunks) :
                     LET c == heap'[id]
                         k == c.ChunkCoords
                         before == NewChunk(k)
                     IN  (k \in DOMAIN files /\ Len(files[k].Density) # Cube(files[k].Size))
                         => /\ c.CurrentSize = before.CurrentSize
                            /\ c.CurrentScale = before.CurrentScale
                            /\ c.CurrentIsoLevel = before.CurrentIsoLevel
                            /\ c.Density = before.Density ]_vars

\* C14: a chunk with a populated density that EndPlay serializes reads back,
\* into a fresh component, with the same size, scale, iso level and density,
\* and with the mesh a rebuild gives the chunk itself.
C14_RoundTrip ==
  [][ EndPlay => \A id \in Range(PersistentChunks) :
                   LET c == heap[id]
                       d == LoadDensityFromJSON(NewChunk(c.ChunkCoords), files',
                                                RelativeFile(c.ChunkCoords))
                   IN  Len(c.Density) > 0
                       => /\ d.CurrentSize = c.CurrentSize
                          /\ d.CurrentScale = c.CurrentScale
                          /\ d.CurrentIsoLevel = c.CurrentIsoLevel
                          /\ d.Density = c.Density
                          /\ d.Mesh = RebuildMeshFromCurrentDensity(c).Mesh ]_vars

-----------------------------------------------------------------------------
\* Meshing

\* C15: on every chunk the program holds, RebuildMeshFromCurrentDensity reads
\* no density index outside the buffer; when CurrentSize <= 1 or the density
\* length is not CurrentSize^3 it reads nothing and leaves an empty mesh; and a
\* chunk that carries a mesh has a density of CurrentSize^3 samples.
C15_MeshGuarded ==
  \A id \in DOMAIN heap :
    LET c == heap[id]
    IN  /\ MeshReads(c) \subseteq 1..Len(c.Density)
        /\ (c.CurrentSize <= 1 \/ Len(c.Density) # Cube(c.CurrentSize))
           => /\ MeshReads(c) = {}
              /\ RebuildMeshFromCurrentDensity(c).Mesh = << >>
        /\ c.Mesh # << >> => c.CurrentSize > 1 /\ Len(c.Density) = Cube(c.CurrentSize)

\* A live chunk holds a density whose length is not CurrentSize^3, loaded from
\* a record, and has no mesh
C15_Witness ==
  \E id \in LiveChunks :
    /\ Len(heap[id].Density) > 0
    /\ heap[id].CurrentSize > 1
    /\ Len(heap[id].Density) # Cube(heap[id].CurrentSize)
    /\ heap[id].Mesh = << >>

\* The density of c has CurrentSize^3 samples, CurrentSize > 1
ConsistentField(c) == c.CurrentSize > 1 /\ Len(c.Density) = Cube(c.CurrentSize)

\* C17: a rebuild of a chunk whose CurrentSize^3 samples are all strictly below
\* the iso level emits no triangle, and so does a rebuild of a chunk whose
\* samples are all strictly above it.
C17_UniformFieldEmpty ==
  \A id \in DOMAIN heap :
    LET c == heap[id]
        below == \A i \in 1..Len(c.Density) : FLess(c.Density[i], c.CurrentIsoLevel)
        above == \A i \in 1..Len(c.Density) : FLess(c.CurrentIsoLevel, c.Density[i])
    IN  (ConsistentField(c) /\ (below \/ above))
        => RebuildMeshFromCurrentDensity(c).Mesh = << >>

\* A live chunk loaded from the filled record: every sample above the iso
\* level, rebuilt, no geometry
C17_Witness ==
  \E id \in LiveChunks :
    /\ ConsistentField(heap[id])
    /\ \A i \in 1..Len(heap[id].Density) : heap[id].Density[i] > heap[id].CurrentIsoLevel
    /\ heap[id].Density # GeneratedDensity(heap[id].Location, ChunkSize, TerrainScale)
    /\ heap[id].Mesh = << >>

-----------------------------------------------------------------------------
\* Teardown

\* C18: EndPlay leaves, for every persistent chunk, a record under the chunk's
\* own name that holds the chunk's size, scale, iso level and density as they
\* are at teardown, also when the chunk's density is still empty.
C18_TeardownSavesEveryChunk ==
  [][ EndPlay =>
        /\ \A i, j \in 1..Len(PersistentChunks) :
             heap[PersistentChunks[i]].ChunkCoords = heap[PersistentChunks[j]].ChunkCoords
             => i = j
        /\ \A id \in Range(PersistentChunks) :
             LET c == heap[id]
             IN  /\ c.ChunkCoords \in DOMAIN files'
                 /\ files'[c.ChunkCoords].Size = c.CurrentSize
                 /\ files'[c.ChunkCoords].Scale = c.CurrentScale
                 /\ files'[c.ChunkCoords].IsoLevel = c.CurrentIsoLevel
                 /\ files'[c.ChunkCoords].Density
                      = [ i \in 1..Len(c.Density) |-> WriteDouble(c.Density[i]) ] ]_vars

-----------------------------------------------------------------------------
\* Flag and counter

\* C20: whenever a generation task is pending, in the thread pool or on the
\* game thread, bIsGenerating is set (so no task is pending when it is clear),
\* and CompletedChunks does not exceed the number of chunks of the grid the
\* pass was scheduled over.
C20_FlagAndCounterTrackTasks ==
  /\ Tasks # {} => bIsGenerating
  /\ streamCalls = 0 => CompletedChunks <= Len(Chunks)

-----------------------------------------------------------------------------
\* Lifetime of chunks

\* C21: a chunk that a generation task still refers to, queued for the thread
\* pool, inside BuildDensityField or queued for the game thread, has not been
\* destroyed.
C21_NoTaskOnDestroyedChunk ==
  \A t \in workerPending \cup workerRunning \cup gamePending : ~heap[t.chunk].Destroyed

\* C22: every entry of PersistentChunks is a chunk of Chunks that has not been
\* destroyed.
C22_PersistentChunksAreLive ==
  \A id \in Range(PersistentChunks) : id \in Range(Chunks) /\ ~heap[id].Destroyed

=============================================================================
